---- MODULE Spec2Model ----
(***************************************************************************)
(* Session controller of the Exam Helper app (src/App.tsx) together with   *)
(* the analysis request builder analyzePapers (src/unnamed/part_000, the   *)
(* module App.tsx imports as ./geminiService).                             *)
(*                                                                         *)
(* The browser runs one event at a time.  A step of the model is one       *)
(* event: a user action on a rendered control, the completion of a         *)
(* FileReader, the arrival of the response of an external call, or the     *)
(* microtask that resumes startAnalysis after analyzePapers rejected       *)
(* without suspending.                                                     *)
(*                                                                         *)
(* Optional values (T | null | undefined) are sequences of length <= 1.    *)
(***************************************************************************)
EXTENDS Integers, Sequences, FiniteSets, TLC

\* ------------------------------------------------------------------ bounds
MaxFiles == 3       \* files queued or being read at one time
MaxSelect == 2      \* files picked in one upload event
MaxSubmits == 2     \* submissions in one behaviour
MaxEntries == 2     \* entries of a result section (export studies)

\* ------------------------------------------------------- optional values
None == <<>>
Some(x) == <<x>>

\* ------------------------------------------------------------ environment
\* process.env.API_KEY: undefined, the empty string, or a key
ApiKeys == {None, Some(""), Some("key")}

\* a value used as a condition: undefined, null and "" are falsy
Falsy(opt) == opt = None \/ opt = Some("")

\* the File objects the user can pick
LocalFiles ==
  { [name |-> "a.pdf", type |-> "application/pdf", bytes |-> "QUFB"],
    [name |-> "b.png", type |-> "image/png", bytes |-> "QkJC"] }

\* FileReader.readAsDataURL: data:<type>;base64,<payload>
ReadAsDataURL(file) == <<"data:", file.type, ";base64", ",", file.bytes>>

\* the entry reader.onload appends
FileData(file) ==
  [name |-> file.name, type |-> file.type, data |-> ReadAsDataURL(file)]

\* ---------------------------------------------------------------- payloads
PayloadA ==
  [repeated_questions |->
     <<[question |-> "q1", count |-> 2, years |-> <<"2019", "2021">>]>>,
   important_questions |-> <<"i1">>,
   top_15 |-> <<"t1", "t2">>,
   notes |-> <<[topic |-> "n1", content |-> <<"b1">>]>>]

PayloadB ==
  [repeated_questions |-> <<>>,
   important_questions |-> <<"i2", "i3">>,
   top_15 |-> <<"t3">>,
   notes |-> <<>>]

\* messages
KeyMissingMessage ==
  "API_KEY is missing. Please set it in your Netlify Environment Variables."
NoResponseMessage == "No response from AI engine."
FallbackMessage == "Analysis failed. Please try again."
SyntaxErrorMessage(text) ==
  IF text = "" THEN "Unexpected end of JSON input"
  ELSE "Unexpected token < in JSON at position 0"

\* a returned value or a thrown error (err.message may be absent or empty)
Return(v) == [threw |-> FALSE, value |-> v, message |-> None]
Throw(m) == [threw |-> TRUE, value |-> None, message |-> m]

\* JSON.parse on the response texts of the model: surrounding whitespace
\* is skipped, the literal null parses to null, anything else is a
\* SyntaxError whose message names the offending text
JSONParse(text) ==
  CASE text \in {"{A}", " {A}\n"} -> Return(Some(PayloadA))
    [] text = "{B}" -> Return(Some(PayloadB))
    [] text = "null" -> Return(None)
    [] OTHER -> Throw(Some(SyntaxErrorMessage(text)))

\* what the external call can answer: a response with or without text, or
\* a rejection carrying an error
NoResp == [kind |-> "none", text |-> None, message |-> None]
Responses ==
  { [kind |-> "response", text |-> t, message |-> None] :
      t \in {None, Some(""), Some("{A}"), Some(" {A}\n"), Some("{B}"),
             Some("null"), Some("<html>")} }
  \cup
  { [kind |-> "reject", text |-> None, message |-> m] :
      m \in {Some(""), Some("quota exceeded")} }

VARIABLES
  apiKey,         \* process.env.API_KEY of the build
  files,          \* useState<FileData[]>
  status,         \* useState<AppStatus>
  result,         \* useState<AnalysisResult | null>
  error,          \* useState<string | null>
  activeTab,      \* useState<number>
  readers,        \* FileReaders whose onload has not fired: file -> count
  calls,          \* one record per analyzePapers invocation
  externalCalls,  \* number of ai.models.generateContent invocations
  ev,             \* the event of the last step
  pin,            \* argument of the function under study (function studies)
  pout            \* its value, None before it is applied

vars == <<apiKey, files, status, result, error, activeTab, readers, calls,
          externalCalls, ev, pin, pout>>

AppStatus == {"IDLE", "ANALYZING", "COMPLETED", "ERROR"}

\* op: the handler that ran; from: the status it ran in; call: the
\* submission it belongs to; idx: its numeric argument; resp: what the
\* external call answered; artifact: the file it handed to the browser
\* for download
Event(op, call, idx, resp) ==
  [op |-> op, from |-> status, call |-> call, idx |-> idx, resp |-> resp,
   artifact |-> None]

ReaderCount == LET RECURSIVE Sum(_)
                   Sum(S) == IF S = {} THEN 0
                             ELSE LET f == CHOOSE x \in S : TRUE
                                  IN readers[f] + Sum(S \ {f})
               IN Sum(LocalFiles)

\* no continuation is waiting in the microtask queue: only then does the
\* browser deliver the next event
NoMicrotask == \A i \in 1..Len(calls) : calls[i].stage # "rejected"

Init ==
  /\ apiKey \in ApiKeys
  /\ files = <<>>
  /\ status = "IDLE"
  /\ result = None
  /\ error = None
  /\ activeTab = 0
  /\ readers = [f \in LocalFiles |-> 0]
  /\ calls = <<>>
  /\ externalCalls = 0
  /\ ev = [op |-> "init", from |-> "IDLE", call |-> 0, idx |-> 0,
           resp |-> NoResp, artifact |-> None]
  /\ pin = None
  /\ pout = None

\* ------------------------------------------------------------ file intake
\* handleFileUpload: one FileReader per selected file; nothing is appended
\* until a reader's onload fires.  sel is e.target.files (None when null).
\* variant: reads only the first selected file, e.target.files[0]
handleFileUploadFirstOnly(sel) ==
  /\ readers' = IF sel = None \/ sel[1] = <<>> THEN readers
                ELSE [readers EXCEPT ![sel[1][1]] = @ + 1]
  /\ ev' = Event("handleFileUpload", 0,
                 IF sel = None THEN 0 ELSE Len(sel[1]), NoResp)
  /\ UNCHANGED <<pin, pout, apiKey, files, status, result, error, activeTab, calls,
                 externalCalls>>

handleFileUpload(sel) ==
  /\ readers' = IF sel = None THEN readers
                ELSE [f \in LocalFiles |->
                        readers[f]
                        + Cardinality({k \in 1..Len(sel[1]) : sel[1][k] = f})]
  /\ ev' = Event("handleFileUpload", 0,
                 IF sel = None THEN 0 ELSE Len(sel[1]), NoResp)
  /\ UNCHANGED <<pin, pout, apiKey, files, status, result, error, activeTab, calls,
                 externalCalls>>

\* reader.onload: setFiles(prev => [...prev, {name, type, data}])
readerOnload(f) ==
  /\ readers[f] > 0
  /\ readers' = [readers EXCEPT ![f] = @ - 1]
  /\ files' = Append(files, FileData(f))
  /\ ev' = Event("onload", 0, 0, NoResp)
  /\ UNCHANGED <<pin, pout, apiKey, status, result, error, activeTab, calls,
                 externalCalls>>

\* a read that fails: the reader has no onerror handler, nothing is appended
readerOnerror(f) ==
  /\ readers[f] > 0
  /\ readers' = [readers EXCEPT ![f] = @ - 1]
  /\ ev' = Event("onerror", 0, 0, NoResp)
  /\ UNCHANGED <<pin, pout, apiKey, files, status, result, error, activeTab, calls,
                 externalCalls>>

\* variant: filters by value, prev.filter(f => f !== prev[index])
RECURSIVE filterValue(_, _, _)
filterValue(prev, index, i) ==
  IF i >= Len(prev) THEN <<>>
  ELSE (IF prev[i + 1] # prev[index + 1] THEN <<prev[i + 1]>> ELSE <<>>)
       \o filterValue(prev, index, i + 1)

\* prev.filter((_, i) => i !== index), index counted from 0
RECURSIVE filterIndex(_, _, _)
filterIndex(prev, index, i) ==
  IF i >= Len(prev) THEN <<>>
  ELSE (IF i # index THEN <<prev[i + 1]>> ELSE <<>>)
       \o filterIndex(prev, index, i + 1)

removeFile(index) ==
  /\ files' = filterIndex(files, index, 0)
  /\ ev' = Event("removeFile", 0, index, NoResp)
  /\ UNCHANGED <<pin, pout, apiKey, status, result, error, activeTab, readers, calls,
                 externalCalls>>

\* ------------------------------------------------------ request parts
\* a data string is a sequence of text pieces in which every comma is a
\* piece of its own (see ReadAsDataURL)
\* data.includes(',')
includesComma(data) == \E k \in 1..Len(data) : data[k] = ","

\* position of the first comma at or after position k, Len(data) + 1 if none
RECURSIVE nextComma(_, _)
nextComma(data, k) ==
  IF k > Len(data) THEN Len(data) + 1
  ELSE IF data[k] = "," THEN k
  ELSE nextComma(data, k + 1)

\* data.split(',')[1]: what stands between the first comma and the next
\* one (or the end)
splitSecond(data) ==
  LET c1 == nextComma(data, 1)
      c2 == nextComma(data, c1 + 1)
  IN SubSeq(data, c1 + 1, c2 - 1)

InstructionText ==
  "Analyze these PYQs and provide a structured exam-oriented summary as defined in the system instructions. Focus on high-yield patterns."

\* variant: the data URL is passed on whole
inlinePartWhole(file) ==
  [inlineData |-> [data |-> file.data, mimeType |-> file.type]]

\* the part built for one file
inlinePart(file) ==
  [inlineData |->
     [data |-> IF includesComma(file.data) THEN splitSecond(file.data)
               ELSE file.data,
      mimeType |-> file.type]]

\* files.map(...) followed by parts.push({text})
buildParts(fileList) ==
  [j \in 1..Len(fileList) |-> inlinePart(fileList[j])]
  \o <<[text |-> InstructionText]>>

\* variant: the request is issued whatever the credential is
analyzePapersStartNoKeyCheck(key) == [stage |-> "inflight", issued |-> 1]

\* ------------------------------------------------------- analyzePapers
\* analyzePapers up to its first suspension: the credential check, then the
\* request is built and generateContent is invoked
analyzePapersStart(key) ==
  IF Falsy(key) THEN [stage |-> "rejected", issued |-> 0]
  ELSE [stage |-> "inflight", issued |-> 1]

\* variant: the text goes to JSON.parse unchecked
analyzePapersResumeNoTextCheck(resp) ==
  IF resp.kind = "reject" THEN Throw(resp.message)
  ELSE IF resp.text = None THEN Throw(Some(SyntaxErrorMessage("undefined")))
  ELSE JSONParse(resp.text[1])

\* analyzePapers after generateContent settled: a rejection is rethrown
\* unchanged, a response without text is "No response", the text is parsed
analyzePapersResume(resp) ==
  IF resp.kind = "reject" THEN Throw(resp.message)
  ELSE IF Falsy(resp.text) THEN Throw(Some(NoResponseMessage))
  ELSE JSONParse(resp.text[1])

\* variant: one fixed message for every failure
errorMessageGeneric(message) == FallbackMessage

\* err.message || "Analysis failed. Please try again."
errorMessage(message) ==
  IF Falsy(message) THEN FallbackMessage ELSE message[1]

\* variant: no files.length guard
startAnalysisNoGuard ==
  LET a == analyzePapersStart(apiKey)
  IN /\ status' = "ANALYZING"
     /\ error' = None
     /\ calls' = Append(calls, [stage |-> a.stage, issued |-> a.issued,
                                voided |-> FALSE])
     /\ externalCalls' = externalCalls + a.issued
     /\ ev' = Event("startAnalysis", Len(calls) + 1, 0, NoResp)
     /\ UNCHANGED <<pin, pout, apiKey, files, result, activeTab, readers>>

\* ------------------------------------------------------- startAnalysis
\* startAnalysis up to "await analyzePapers(files)"
startAnalysis ==
  IF Len(files) = 0
  THEN /\ ev' = Event("startAnalysis", 0, 0, NoResp)
       /\ UNCHANGED <<pin, pout, apiKey, files, status, result, error, activeTab,
                      readers, calls, externalCalls>>
  ELSE LET a == analyzePapersStart(apiKey)
       IN /\ status' = "ANALYZING"
          /\ error' = None
          /\ calls' = Append(calls, [stage |-> a.stage, issued |-> a.issued,
                                     voided |-> FALSE])
          /\ externalCalls' = externalCalls + a.issued
          /\ ev' = Event("startAnalysis", Len(calls) + 1, 0, NoResp)
          /\ UNCHANGED <<pin, pout, apiKey, files, result, activeTab, readers>>

\* variant: setStatus('COMPLETED') without setResult(analysis)
startAnalysisResumeNoResult(i, outcome, resp) ==
  /\ IF outcome.threw
     THEN /\ error' = Some(errorMessage(outcome.message))
          /\ status' = "ERROR"
     ELSE /\ status' = "COMPLETED"
          /\ UNCHANGED error
  /\ UNCHANGED result
  /\ calls' = [calls EXCEPT ![i].stage = "done"]
  /\ ev' = Event("settle", i, 0, resp)
  /\ UNCHANGED <<pin, pout, apiKey, files, activeTab, readers, externalCalls>>

\* variant: a failed call is issued once more
startAnalysisResumeRetry(i, outcome, resp) ==
  /\ IF outcome.threw
     THEN /\ error' = Some(errorMessage(outcome.message))
          /\ status' = "ERROR"
          /\ externalCalls' = externalCalls + 1
          /\ UNCHANGED result
     ELSE /\ result' = outcome.value
          /\ status' = "COMPLETED"
          /\ UNCHANGED <<error, externalCalls>>
  /\ calls' = [calls EXCEPT ![i].stage = "done"]
  /\ ev' = Event("settle", i, 0, resp)
  /\ UNCHANGED <<pin, pout, apiKey, files, activeTab, readers>>

\* startAnalysis after the await, given what analyzePapers produced
startAnalysisResume(i, outcome, resp) ==
  /\ IF outcome.threw
     THEN /\ error' = Some(errorMessage(outcome.message))
          /\ status' = "ERROR"
          /\ UNCHANGED result
     ELSE /\ result' = outcome.value
          /\ status' = "COMPLETED"
          /\ UNCHANGED error
  /\ calls' = [calls EXCEPT ![i].stage = "done"]
  /\ ev' = Event("settle", i, 0, resp)
  /\ UNCHANGED <<pin, pout, apiKey, files, activeTab, readers, externalCalls>>

\* variant: the file list survives
resetKeepFiles ==
  /\ status' = "IDLE"
  /\ result' = None
  /\ error' = None
  /\ calls' = [i \in 1..Len(calls) |->
                 IF calls[i].stage = "inflight"
                 THEN [calls[i] EXCEPT !.voided = TRUE] ELSE calls[i]]
  /\ ev' = Event("reset", 0, 0, NoResp)
  /\ UNCHANGED <<pin, pout, apiKey, files, activeTab, readers, externalCalls>>

\* reset; the calls still in flight are not cancelled (voided only records
\* that a reset happened while the call was in flight)
reset ==
  /\ files' = <<>>
  /\ status' = "IDLE"
  /\ result' = None
  /\ error' = None
  /\ calls' = [i \in 1..Len(calls) |->
                 IF calls[i].stage = "inflight"
                 THEN [calls[i] EXCEPT !.voided = TRUE] ELSE calls[i]]
  /\ ev' = Event("reset", 0, 0, NoResp)
  /\ UNCHANGED <<pin, pout, apiKey, activeTab, readers, externalCalls>>

setActiveTab(id) ==
  /\ activeTab' = id
  /\ ev' = Event("setActiveTab", 0, id, NoResp)
  /\ UNCHANGED <<pin, pout, apiKey, files, status, result, error, readers, calls,
                 externalCalls>>

\* ------------------------------------------------------------- exports
\* A text is a sequence of lines and a line a sequence of pieces: the
\* literal parts of the template and the interpolated values.
\* years.join(', ')
RECURSIVE join(_, _)
join(items, sep) ==
  IF Len(items) = 0 THEN <<>>
  ELSE IF Len(items) = 1 THEN <<items[1]>>
  ELSE <<items[1], sep>> \o join(Tail(items), sep)

\* the content exportResultsAsText puts into the Blob, cut at the \n
textContent(r) ==
  <<  <<"EXAM PAPER ANALYSIS REPORT">>, <<>>,
      <<"1. REPEATED QUESTIONS">>  >>
  \o [k \in 1..Len(r.repeated_questions) |->
        LET q == r.repeated_questions[k]
        IN <<"- ", q.question, " (Repeated ", ToString(q.count), "x in ">>
           \o join(q.years, ", ") \o <<")">>]
  \o << <<>>, <<"2. TOP 15 QUESTIONS">> >>
  \o [k \in 1..Len(r.top_15) |-> <<ToString(k), ". ", r.top_15[k]>>]

\* variant: no "if (!result) return", a report is saved in any case
exportResultsAsTextNoGuard ==
  /\ ev' = [Event("exportText", 0, 0, NoResp) EXCEPT
              !.artifact =
                 Some([name |-> <<"Exam_Analysis.txt">>,
                       content |-> IF result = None
                                   THEN << <<"EXAM PAPER ANALYSIS REPORT">> >>
                                   ELSE textContent(result[1])])]
  /\ UNCHANGED <<pin, pout, apiKey, files, status, result, error, activeTab,
                 readers, calls, externalCalls>>

\* exportResultsAsText
exportResultsAsText ==
  /\ ev' = [Event("exportText", 0, 0, NoResp) EXCEPT
              !.artifact =
                 IF result = None THEN None
                 ELSE Some([name |-> <<"Exam_Analysis.txt">>,
                            content |-> textContent(result[1])])]
  /\ UNCHANGED <<pin, pout, apiKey, files, status, result, error, activeTab,
                 readers, calls, externalCalls>>

\* ------------------------------------------------------------ PDF export
\* Vertical positions are kept in half units (y = 20 is 40 here), so that
\* the line height size * 0.5 is the whole number size.
PageTop == 20
PageLimit == 280

\* topic.toUpperCase() on the topics of the model
toUpperCase(s) ==
  CASE s = "n1" -> "N1"
    [] s = "s" -> "S"
    [] OTHER -> s

\* the number of lines a piece of text takes by itself at the content
\* width: the texts named w<k> are long enough to wrap to k lines
TextLines(s) ==
  CASE s = "w25" -> 25
    [] s = "w60" -> 60
    [] OTHER -> 1

\* doc.splitTextToSize(text, contentWidth).length for a text made of pieces
RECURSIVE splitTextToSize(_)
splitTextToSize(pieces) ==
  IF pieces = <<>> THEN 1
  ELSE TextLines(Head(pieces)) - 1 + splitTextToSize(Tail(pieces))

\* the document being written: current page, cursor y, and the record of
\* what was done (check: checkPageBreak(needed) called at y; text: doc.text
\* at y, after which y moves by dy; skip: y moves by dy)
NewDoc == [page |-> 1, y |-> 2 * PageTop, log |-> <<>>]

Logged(kind, d, needed, dy, label) ==
  [kind |-> kind, page |-> d.page, y |-> d.y, needed |-> needed, dy |-> dy,
   label |-> label]

\* variant: the cursor is not put back to the top of the new page
checkPageBreakKeepY(d, needed) ==
  LET l == Append(d.log, Logged("check", d, needed, 0, 0))
  IN IF d.y + needed > 2 * PageLimit
     THEN [page |-> d.page + 1, y |-> d.y, log |-> l]
     ELSE [d EXCEPT !.log = l]

checkPageBreak(d, needed) ==
  LET l == Append(d.log, Logged("check", d, needed, 0, 0))
  IN IF d.y + needed > 2 * PageLimit
     THEN [page |-> d.page + 1, y |-> 2 * PageTop, log |-> l]
     ELSE [d EXCEPT !.log = l]

\* doc.text(..., margin, y); y += dy
text(d, label, dy) ==
  [d EXCEPT !.log = Append(d.log, Logged("text", d, 0, dy, label)),
            !.y = d.y + dy]

\* y += dy
skip(d, dy) ==
  [d EXCEPT !.log = Append(d.log, Logged("skip", d, 0, dy, 0)),
            !.y = d.y + dy]

\* addHeading of section n
addHeading(d, n) == text(checkPageBreak(d, 2 * 15), n, 2 * 10)

\* lines.forEach(line => { doc.text(line, margin, y); y += lineHeight })
\* (line k is drawn at the cursor the k - 1 lines before it left)
forEachLine(d, n, lineHeight) ==
  [d EXCEPT
     !.log = d.log
             \o [k \in 1..n |->
                   Logged("text", [d EXCEPT !.y = d.y + (k - 1) * lineHeight],
                          0, lineHeight, 0)],
     !.y = d.y + n * lineHeight]

\* addParagraph(text, size): size is 11 by default
addParagraph(d, pieces, size) ==
  LET n == splitTextToSize(pieces)
      lineHeight == size
  IN skip(forEachLine(checkPageBreak(d, n * lineHeight + 2 * 5), n,
                      lineHeight),
          2 * 2)

\* result.repeated_questions.forEach from entry k on
RECURSIVE pdfRepeated(_, _, _)
pdfRepeated(d, qs, k) ==
  IF k > Len(qs) THEN d
  ELSE LET q == qs[k]
           d1 == addParagraph(d, <<ToString(k), ". ", q.question>>, 11)
           d2 == addParagraph(d1, <<"Repeated ", ToString(q.count),
                                    " times in: ">> \o join(q.years, ", "),
                              10)
       IN pdfRepeated(skip(d2, 2 * 2), qs, k + 1)

\* important_questions.forEach and top_15.forEach from entry k on
RECURSIVE pdfNumbered(_, _, _)
pdfNumbered(d, qs, k) ==
  IF k > Len(qs) THEN d
  ELSE pdfNumbered(addParagraph(d, <<ToString(k), ". ", qs[k]>>, 11),
                   qs, k + 1)

\* note.content.forEach from point k on
RECURSIVE pdfPoints(_, _, _)
pdfPoints(d, points, k) ==
  IF k > Len(points) THEN d
  ELSE pdfPoints(addParagraph(d, <<"* ", points[k]>>, 10), points, k + 1)

\* result.notes.forEach from note k on
RECURSIVE pdfNotes(_, _, _)
pdfNotes(d, notes, k) ==
  IF k > Len(notes) THEN d
  ELSE LET d1 == addParagraph(d, <<"TOPIC: ", toUpperCase(notes[k].topic)>>,
                              11)
           d2 == pdfPoints(d1, notes[k].content, 1)
       IN pdfNotes(skip(d2, 2 * 4), notes, k + 1)

\* the document exportResultsAsPDF saves for result r
pdfDocument(r) ==
  LET d0 == text(NewDoc, 9, 2 * 15)
      d1 == pdfRepeated(addHeading(d0, 1), r.repeated_questions, 1)
      d2 == pdfNumbered(addHeading(d1, 2), r.important_questions, 1)
      d3 == pdfNumbered(addHeading(d2, 3), r.top_15, 1)
  IN pdfNotes(addHeading(d3, 4), r.notes, 1)

\* exportResultsAsPDF
exportResultsAsPDF ==
  /\ ev' = [Event("exportPDF", 0, 0, NoResp) EXCEPT
              !.artifact =
                 IF result = None THEN None
                 ELSE Some([name |-> <<"Exam_Analysis_", "Date.now()",
                                       ".pdf">>,
                            content |-> pdfDocument(result[1])])]
  /\ UNCHANGED <<pin, pout, apiKey, files, status, result, error, activeTab,
                 readers, calls, externalCalls>>

\* ------------------------------------------------------------- rendering
IdleView == status = "IDLE"
SubmitButtonRendered == IdleView /\ Len(files) > 0
ResetButtonRendered == status # "IDLE"
ResultView == status = "COMPLETED" /\ result # None
ExportButtonsRendered == status = "COMPLETED"

\* ---------------------------------------------------------------- events
Selections ==
  {None} \cup { Some(s) : s \in UNION {[1..n -> LocalFiles] : n \in 0..MaxSelect} }

Upload ==
  /\ NoMicrotask
  /\ IdleView
  /\ \E sel \in Selections :
       /\ Len(files) + ReaderCount + (IF sel = None THEN 0 ELSE Len(sel[1]))
            <= MaxFiles
       /\ handleFileUpload(sel)

Onload ==
  /\ NoMicrotask
  /\ \E f \in LocalFiles : readerOnload(f)

Onerror ==
  /\ NoMicrotask
  /\ \E f \in LocalFiles : readerOnerror(f)

ClickRemove ==
  /\ NoMicrotask
  /\ IdleView
  /\ \E index \in 0..(Len(files) - 1) : removeFile(index)

ClickSubmit ==
  /\ NoMicrotask
  /\ SubmitButtonRendered
  /\ Len(calls) < MaxSubmits
  /\ startAnalysis

\* startAnalysis run while nothing is queued (the Idle view renders no
\* button then): its own guard is all that stands before analyzePapers
SubmitNothing ==
  /\ NoMicrotask
  /\ IdleView
  /\ Len(files) = 0
  /\ Len(calls) < MaxSubmits
  /\ startAnalysis

\* the microtask resuming startAnalysis after analyzePapers threw at once
Rejected ==
  \E i \in 1..Len(calls) :
    /\ calls[i].stage = "rejected"
    /\ startAnalysisResume(i, Throw(Some(KeyMissingMessage)), NoResp)

\* the external call of submission i settles
Settle ==
  /\ NoMicrotask
  /\ \E i \in 1..Len(calls), resp \in Responses :
       /\ calls[i].stage = "inflight"
       /\ startAnalysisResume(i, analyzePapersResume(resp), resp)

ClickReset ==
  /\ NoMicrotask
  /\ ResetButtonRendered
  /\ reset

ClickTab ==
  /\ NoMicrotask
  /\ ResultView
  /\ \E id \in 0..3 : setActiveTab(id)

ClickExportText ==
  /\ NoMicrotask
  /\ ExportButtonsRendered
  /\ exportResultsAsText

ClickExportPDF ==
  /\ NoMicrotask
  /\ ExportButtonsRendered
  /\ exportResultsAsPDF

Next ==
  \/ Upload
  \/ Onload
  \/ Onerror
  \/ ClickRemove
  \/ ClickSubmit
  \/ SubmitNothing
  \/ Rejected
  \/ Settle
  \/ ClickReset
  \/ ClickTab
  \/ ClickExportText
  \/ ClickExportPDF

Spec == Init /\ [][Next]_vars

\* ---------------------------------------- study of the request parts
\* FileData values analyzePapers can be given: the entries reader.onload
\* makes, and entries whose data is bare base64 (types.ts: "data: string;
\* // Base64")
PartsFiles ==
  { FileData(f) : f \in LocalFiles }
  \cup { [name |-> f.name, type |-> f.type, data |-> <<f.bytes>>] :
           f \in LocalFiles }

\* the session plays no part in a function study: it stays as constructed
SessionAtRest ==
  /\ apiKey = Some("key")
  /\ files = <<>>
  /\ status = "IDLE"
  /\ result = None
  /\ error = None
  /\ activeTab = 0
  /\ readers = [f \in LocalFiles |-> 0]
  /\ calls = <<>>
  /\ externalCalls = 0
  /\ ev = [op |-> "init", from |-> "IDLE", call |-> 0, idx |-> 0,
           resp |-> NoResp, artifact |-> None]

PartsInit ==
  /\ pin \in UNION { [1..n -> PartsFiles] : n \in 0..MaxFiles }
  /\ pout = None
  /\ SessionAtRest

BuildRequest ==
  /\ pout = None
  /\ pout' = Some(buildParts(pin))
  /\ UNCHANGED <<pin, apiKey, files, status, result, error, activeTab,
                 readers, calls, externalCalls, ev>>

PartsSpec == PartsInit /\ [][BuildRequest]_vars

\* ------------------------------------------- study of the PDF layout
\* results whose texts are short ("s") or wrap to 25 or 60 lines
PdfTexts == {"s", "w25", "w60"}

SeqsUpTo(S, n) == UNION { [1..k -> S] : k \in 0..n }

PdfResults ==
  { [repeated_questions |-> rq, important_questions |-> iq, top_15 |-> t,
     notes |-> n] :
      rq \in SeqsUpTo({ [question |-> q, count |-> 2,
                         years |-> <<"2019", "2021">>] : q \in PdfTexts }, 1),
      iq \in SeqsUpTo(PdfTexts, MaxEntries),
      t \in SeqsUpTo(PdfTexts, MaxEntries),
      n \in SeqsUpTo({ [topic |-> "s", content |-> c] :
                         c \in SeqsUpTo(PdfTexts, 1) }, 1) }

PdfInit ==
  /\ pin \in PdfResults
  /\ pout = None
  /\ SessionAtRest

LayoutPdf ==
  /\ pout = None
  /\ pout' = Some(pdfDocument(pin))
  /\ UNCHANGED <<pin, apiKey, files, status, result, error, activeTab,
                 readers, calls, externalCalls, ev>>

PdfSpec == PdfInit /\ [][LayoutPdf]_vars

TypeOK ==
  /\ status \in AppStatus
  /\ activeTab \in 0..3
  /\ Len(result) <= 1
  /\ Len(error) <= 1

\* ================================================================ claims

\* C1: status is always one of IDLE, ANALYZING, COMPLETED, ERROR and changes
\* only by IDLE->ANALYZING on submit, ANALYZING->COMPLETED on success,
\* ANALYZING->ERROR on failure and any->IDLE on reset.
C1_OnlyListedTransitions ==
  /\ [](status \in AppStatus)
  /\ [][status' # status =>
          \/ status = "IDLE" /\ status' = "ANALYZING"
               /\ ev'.op = "startAnalysis"
          \/ status = "ANALYZING" /\ status' = "COMPLETED"
               /\ ev'.op = "settle"
          \/ status = "ANALYZING" /\ status' = "ERROR"
               /\ ev'.op = "settle"
          \/ status' = "IDLE" /\ ev'.op = "reset"]_vars

\* C2: the response or error of a call that was in flight when reset ran is
\* ignored when it arrives: status stays IDLE, result and error stay null.
C2_LateResponseIgnored ==
  [][(/\ ev'.op = "settle"
      /\ calls[ev'.call].voided
      /\ status = "IDLE" /\ result = None /\ error = None)
     => (status' = "IDLE" /\ result' = None /\ error' = None)]_vars

\* C3: startAnalysis with a non-empty file list sets status to ANALYZING, and
\* when the external call answers with a schema-valid payload the session
\* is COMPLETED with result equal to exactly that payload.
C3_SubmitThenSuccess ==
  /\ (ev.op = "startAnalysis" /\ files # <<>> => status = "ANALYZING")
  /\ (ev.op = "settle" /\ ev.resp.kind = "response" =>
        /\ ev.resp.text \in {Some("{A}"), Some(" {A}\n")} =>
             status = "COMPLETED" /\ result = Some(PayloadA)
        /\ ev.resp.text = Some("{B}") =>
             status = "COMPLETED" /\ result = Some(PayloadB))

C3_Witness ==
  /\ ev.op = "settle"
  /\ ev.from = "ANALYZING"
  /\ ev.resp.text = Some(" {A}\n")
  /\ status = "COMPLETED"
  /\ result = Some(PayloadA)

\* C4: reset from COMPLETED or from ERROR yields status IDLE, files empty,
\* result null and error null.
C4_ResetClears ==
  (ev.op = "reset" /\ ev.from \in {"COMPLETED", "ERROR"}) =>
    (status = "IDLE" /\ files = <<>> /\ result = None /\ error = None)

C4_Witness ==
  /\ ev.op = "reset"
  /\ ev.from = "COMPLETED"
  /\ status = "IDLE"
  /\ files = <<>>
  /\ result = None

\* C5: a response whose text is empty or absent ends in ERROR with the
\* message "No response from AI engine." stored in error.
C5_NoResponse ==
  (ev.op = "settle" /\ ev.resp.kind = "response"
     /\ ev.resp.text \in {None, Some("")}) =>
    (status = "ERROR" /\ error = Some("No response from AI engine."))

C5_Witness ==
  /\ ev.op = "settle"
  /\ ev.resp.kind = "response"
  /\ ev.resp.text = Some("")
  /\ status = "ERROR"

\* C6: non-empty text that fails JSON parsing ends in ERROR and error holds
\* the parse failure's message, not a message of another class and not null.
C6_ParseFailure ==
  (ev.op = "settle" /\ ev.resp.kind = "response"
     /\ ev.resp.text = Some("<html>")) =>
    /\ status = "ERROR"
    /\ error = Some("Unexpected token < in JSON at position 0")
    /\ error \notin {None, Some(NoResponseMessage), Some(FallbackMessage),
                     Some(KeyMissingMessage)}

C6_Witness ==
  /\ ev.op = "settle"
  /\ ev.resp.text = Some("<html>")
  /\ status = "ERROR"
  /\ error # None

\* C7: with the credential missing every submission fails with the
\* descriptive message before any external call: the count of external
\* calls stays zero and the submission ends in ERROR.
C7_MissingCredential ==
  Falsy(apiKey) =>
    /\ externalCalls = 0
    /\ status # "COMPLETED"
    /\ \A i \in 1..Len(calls) : calls[i].stage # "inflight"
    /\ status = "ANALYZING" => ~NoMicrotask
    /\ ev.op = "settle" =>
         /\ status = "ERROR"
         /\ error = Some("API_KEY is missing. Please set it in your Netlify Environment Variables.")

C7_Witness ==
  /\ apiKey = Some("")
  /\ ev.op = "settle"
  /\ status = "ERROR"
  /\ externalCalls = 0

\* C8: startAnalysis run with an empty file list issues no external call and
\* leaves status, result and error unchanged, and analyzePapers is never
\* called with an empty file list.
C8_NoEmptySubmission ==
  [][/\ (ev'.op = "startAnalysis" /\ files = <<>>) =>
          UNCHANGED <<status, result, error, calls, externalCalls>>
     /\ (Len(calls') # Len(calls) \/ externalCalls' # externalCalls) =>
          (ev'.op = "startAnalysis" /\ files # <<>>)]_vars

C8_Witness ==
  /\ ev.op = "startAnalysis"
  /\ ev.call = 0
  /\ files = <<>>
  /\ status = "IDLE"
  /\ calls = <<>>

\* C9: removeFile(i) on a list of N files, 0 <= i < N, yields the N-1 files
\* left when the entry at position i is deleted, in their original order.
C9_RemoveFile ==
  [][ev'.op = "removeFile" =>
       /\ ev'.idx \in 0..(Len(files) - 1)
       /\ Len(files') = Len(files) - 1
       /\ \A j \in 1..Len(files') :
            files'[j] = IF j <= ev'.idx THEN files[j] ELSE files[j + 1]]_vars

C9_Witness ==
  /\ ev.op = "removeFile"
  /\ ev.idx = 1
  /\ Len(files) = 2
  /\ files[1] # files[2]

\* C10 as stated: each submission makes exactly one external call attempt
\* (and the rest of the claim as in C10_SingleAttempt below).
C10_ExactlyOneCallPerSubmission ==
  externalCalls = Len(calls)

\* C10 amended: each submission makes at most one external call attempt
\* (exactly one when the credential is configured, none when it is missing);
\* an external call is issued only by a submission from IDLE, never after a
\* failure; a call settles once, and settling stores either the result with
\* COMPLETED or the error with ERROR, never both.
C10_SingleAttempt ==
  /\ [](/\ \A i \in 1..Len(calls) : calls[i].issued \in {0, 1}
        /\ externalCalls = (IF Falsy(apiKey) THEN 0 ELSE Len(calls)))
  /\ [][/\ externalCalls' # externalCalls =>
             /\ externalCalls' = externalCalls + 1
             /\ ev'.op = "startAnalysis"
             /\ status = "IDLE"
        /\ \A i \in 1..Len(calls) :
             calls[i].stage = "done" => calls'[i].stage = "done"
        /\ ev'.op = "settle" =>
             /\ calls[ev'.call].stage # "done"
             /\ calls'[ev'.call].stage = "done"
             /\ \/ status' = "COMPLETED" /\ error' = error
                \/ status' = "ERROR" /\ error' # None /\ result' = result]_vars

C10_Witness ==
  /\ ev.op = "settle"
  /\ ev.resp.kind = "reject"
  /\ status = "ERROR"
  /\ externalCalls = 1
  /\ Len(calls) = 1

\* C11: the stored result is non-null only while status is COMPLETED; in
\* IDLE, ANALYZING and ERROR result is null.
C11_ResultOnlyWhenCompleted ==
  result # None => status = "COMPLETED"

\* C12: outside IDLE no event adds an entry to or removes an entry from the
\* file list, a late file read included; only reset empties it.
C12_FilesChangeOnlyInIdle ==
  [][status # "IDLE" =>
       \/ files' = files
       \/ ev'.op = "reset" /\ files' = <<>>]_vars

\* C13: the request for N files has N+1 parts: one inline part per file in
\* the order of the list, carrying the file's MIME type and its base64
\* payload (the text after the first comma of the data URL, the whole string
\* when there is no comma), then one instruction-text part.
C13_RequestParts ==
  pout # None =>
    LET parts == pout[1]
        N == Len(pin)
        AfterFirstComma(data) ==
          IF \E k \in 1..Len(data) : data[k] = ","
          THEN LET k == CHOOSE k \in 1..Len(data) :
                          /\ data[k] = ","
                          /\ \A m \in 1..(k - 1) : data[m] # ","
               IN [m \in 1..(Len(data) - k) |-> data[k + m]]
          ELSE data
    IN /\ Len(parts) = N + 1
       /\ \A j \in 1..N :
            /\ DOMAIN parts[j] = {"inlineData"}
            /\ parts[j].inlineData.mimeType = pin[j].type
            /\ parts[j].inlineData.data = AfterFirstComma(pin[j].data)
       /\ DOMAIN parts[N + 1] = {"text"}
       /\ parts[N + 1].text = InstructionText

C13_Witness ==
  /\ pout # None
  /\ Len(pin) = 3
  /\ Len(pout[1]) = 4
  /\ includesComma(pin[1].data)
  /\ ~includesComma(pin[2].data)
  /\ pin[3].type # pin[1].type

\* C14: the plain-text export holds the four sections in the order repeated
\* questions, important questions, top-15, revision notes, with every
\* repeated question's text, count and years, every important question
\* numbered 1..n, every top-15 entry numbered 1..m and every note topic
\* followed by its bullet lines.
C14_TextExportComplete ==
  (ev.op = "exportText" /\ ev.artifact # None) =>
    LET lines == ev.artifact[1].content
        r == result[1]
        Has(line, piece) == \E k \in 1..Len(line) : line[k] = piece
        Titled(i, titles) == lines[i] # <<>> /\ lines[i][1] \in titles
        I == 1..Len(lines)
    IN /\ \E h1, h2, h3, h4 \in I :
            /\ h1 < h2 /\ h2 < h3 /\ h3 < h4
            /\ Titled(h1, {"1. REPEATED QUESTIONS"})
            /\ Titled(h2, {"2. GENERAL / IMPORTANT QUESTIONS",
                           "2. IMPORTANT QUESTIONS"})
            /\ Titled(h3, {"3. TOP 15 QUESTIONS",
                           "3. TOP 15 QUESTIONS (HIGH SCORING)"})
            /\ Titled(h4, {"4. REVISION NOTES",
                           "4. REVISION NOTES (THEORY + DEFINITIONS)"})
       /\ \A k \in 1..Len(r.repeated_questions) :
            LET q == r.repeated_questions[k]
            IN /\ \E i \in I : Has(lines[i], q.question)
               /\ \E i \in I : Has(lines[i], ToString(q.count))
               /\ \A y \in 1..Len(q.years) :
                    \E i \in I : Has(lines[i], q.years[y])
       /\ \A k \in 1..Len(r.important_questions) :
            \E i \in I : /\ Has(lines[i], ToString(k))
                         /\ Has(lines[i], r.important_questions[k])
       /\ \A k \in 1..Len(r.top_15) :
            \E i \in I : /\ Has(lines[i], ToString(k))
                         /\ Has(lines[i], r.top_15[k])
       /\ \A k \in 1..Len(r.notes) :
            \E i \in I :
              /\ \E p \in 1..Len(lines[i]) :
                   lines[i][p] \in {r.notes[k].topic, "N1"}
              /\ \A b \in 1..Len(r.notes[k].content) :
                   /\ i + b \in I
                   /\ Has(lines[i + b], r.notes[k].content[b])

\* C15: the PDF export starts a new page, cursor back at 20, exactly when
\* the cursor plus the height the next block needs exceeds 280; a result
\* whose blocks do not all fit on one page gives more than one page; the
\* four section headings are drawn, in the order 1 to 4.
C15_PageBreaks ==
  pout # None =>
    LET doc == pout[1]
        log == doc.log
        I == 1..Len(log)
        \* the sum of the cursor moves of entries a..b
        RECURSIVE Advance(_, _)
        Advance(a, b) ==
          IF a > b THEN 0
          ELSE IF a = b THEN log[a].dy
          ELSE LET m == (a + b) \div 2
               IN Advance(a, m) + Advance(m + 1, b)
        \* where the cursor would stand at entry i on one endless page
        OnePageY(i) == 40 + Advance(1, i - 1)
        IsHeading(e) == e.kind = "text" /\ e.label \in 1..4
        Headings == [k \in 1..Len(SelectSeq(log, IsHeading)) |->
                       SelectSeq(log, IsHeading)[k].label]
    IN /\ \A i \in I :
            IF log[i].kind = "check"
            THEN /\ i + 1 \in I
                 /\ log[i + 1].kind = "text"
                 /\ IF log[i].y + log[i].needed > 560
                    THEN /\ log[i + 1].page = log[i].page + 1
                         /\ log[i + 1].y = 40
                    ELSE /\ log[i + 1].page = log[i].page
                         /\ log[i + 1].y = log[i].y
            ELSE i + 1 \in I =>
                   /\ log[i + 1].page = log[i].page
                   /\ log[i + 1].y = log[i].y + log[i].dy
       /\ (\E i \in I : /\ log[i].kind = "check"
                        /\ OnePageY(i) + log[i].needed > 560)
            => doc.page > 1
       /\ Headings = <<1, 2, 3, 4>>

C15_Witness ==
  /\ pout # None
  /\ pout[1].page = 3
  /\ \E i \in 1..Len(pout[1].log) :
       /\ pout[1].log[i].kind = "text"
       /\ pout[1].log[i].label = 4
       /\ pout[1].log[i].page = 3
       /\ pout[1].log[i].y = 40

\* C16: both exports leave files, status, result, error and activeTab as
\* they are and issue no external call; with result null an export does
\* nothing and produces no artifact.
C16_ExportsChangeNothing ==
  [][ev'.op \in {"exportPDF", "exportText"} =>
       /\ UNCHANGED <<files, status, result, error, activeTab>>
       /\ UNCHANGED <<externalCalls, calls>>
       /\ result = None => ev'.artifact = None
       /\ result # None => ev'.artifact # None]_vars

C16_Witness ==
  /\ ev.op = "exportText"
  /\ status = "COMPLETED"
  /\ result = None
  /\ ev.artifact = None
  /\ files # <<>>

\* C17: after reset the selected result tab is the first tab again
\* (activeTab = 0), whichever tab was selected before the reset.
C17_ResetSelectsFirstTab == ev.op = "reset" => activeTab = 0

\* C18: at most one external analysis call is in flight at any time, and
\* the payload stored on reaching COMPLETED belongs to the most recent
\* submission.
C18_OneCallInFlight ==
  /\ Cardinality({i \in 1..Len(calls) : calls[i].stage = "inflight"}) <= 1
  /\ (ev.op = "settle" /\ status = "COMPLETED") => ev.call = Len(calls)

\* C19: the stored data agrees with the status: COMPLETED implies a
\* non-null result and a null error, ERROR implies a non-null error message.
C19_DataAgreesWithStatus ==
  /\ status = "COMPLETED" => (result # None /\ error = None)
  /\ status = "ERROR" => error # None

\* C20: an upload event selecting k files starts exactly k reads and
\* leaves the list alone; each completing read appends exactly one entry
\* to the end of the list, whatever the interleaving; a failing read
\* appends nothing; no step other than reset and removal takes an entry
\* away, and none but a failing read drops a pending read. Hence k
\* completed reads grow the list by exactly k entries, in the order of
\* read completion.
C20_EveryReadAppendsOnce ==
  [][/\ ev'.op = "handleFileUpload" =>
          /\ files' = files
          /\ ReaderCount' = ReaderCount + ev'.idx
     /\ ev'.op = "onload" =>
          \E f \in LocalFiles :
            /\ readers[f] > 0
            /\ readers' = [readers EXCEPT ![f] = @ - 1]
            /\ files' = Append(files, FileData(f))
     /\ ev'.op = "onerror" => files' = files
     /\ ev'.op \notin {"handleFileUpload", "onload", "onerror", "reset",
                        "removeFile"} =>
          UNCHANGED <<files, readers>>]_vars

C20_Witness ==
  /\ ev.op = "onload"
  /\ Len(files) = 3
  /\ ReaderCount = 0
  /\ \E i, j \in 1..Len(files) : files[i] # files[j]

\* C21: in the PDF export no line of text is drawn beyond the page limit:
\* every line of a heading or paragraph (and the title) is drawn at a
\* cursor position y with 20 <= y <= 280, for every result.
C21_LinesWithinPage ==
  pout # None =>
    \A i \in 1..Len(pout[1].log) :
      pout[1].log[i].kind = "text" =>
        /\ 2 * PageTop <= pout[1].log[i].y
        /\ pout[1].log[i].y <= 2 * PageLimit

====
